---- MODULE Spec2Model ----
(***************************************************************************)
(* Model of packages/aws-cloudfront/src/lib/index.ts: the create, update,  *)
(* disable and delete operations on a CloudFront distribution, run as      *)
(* concurrent invocations against one provider account.                    *)
(*                                                                         *)
(* Every `await` of the source is a step boundary: an invocation issues a  *)
(* provider call, another invocation may run, then the call is answered.   *)
(* The provider (CloudFront, S3) is the environment; it keeps the          *)
(* distributions, their ETags, the access identity and the bucket policies.*)
(***************************************************************************)
EXTENDS Integers, Sequences, FiniteSets, TLC

\* ------------------------------------------------------------------ bounds
NumProcs == 2          \* invocations that may be in flight at the same time
MaxCalls == 3          \* invocations the callers make in all
MaxDist == 1           \* distributions the provider account may hold
MaxTime == 2           \* values of Date.now() at creation

Procs == 1..NumProcs
DistIds == 1..MaxDist
Timestamps == 1..MaxTime

\* --------------------------------------------------------------- constants
None == "undefined"
MissingConfigMessage == "Could not get a distribution config"
NotDisabledCode == "DistributionNotDisabled"

\* errors: provider errors carry a code, `new Error(msg)` carries a message
ProviderError(code) == [code |-> code, message |-> ""]
PlainError(msg) == [code |-> None, message |-> msg]
GrantError(bucket) == [code |-> "PolicyError", message |-> bucket]
NoError == [code |-> None, message |-> ""]

\* ------------------------------------------------------------- data model
\* The shapes of the records, fields in the order the constructors below write
\* them (TLC keeps the fields of a record in the order of their first mention).
ErrorShape == [code : STRING, message : STRING]
OriginShape == [url : STRING, private : BOOLEAN, path : STRING]
InputsShape == [origins : Seq(OriginShape), comment : STRING, enabled : BOOLEAN,
                defaults : STRING]
IdentityShape == [originAccessIdentityId : STRING, s3CanonicalUserId : STRING]
CallShape == [op : {"create", "update", "delete"}, Id : Nat, inputs : InputsShape]
OriginItemShape ==
  [Id : STRING, DomainName : STRING, S3OriginConfig : [OriginAccessIdentity : STRING]]
  \cup [Id : STRING, DomainName : STRING,
        CustomOriginConfig : [OriginProtocolPolicy : STRING]]
OriginsShape == [Quantity : Nat, Items : Seq(OriginItemShape)]
CacheBehaviorsShape ==
  [Quantity : Nat, Items : Seq([PathPattern : STRING, TargetOriginId : STRING])]
DefaultCacheBehaviorShape ==
  [TargetOriginId : STRING, ViewerProtocolPolicy : STRING, Defaults : STRING]
DistributionConfigShape ==
  [CallerReference : Nat, Comment : STRING, Aliases : [Quantity : Nat, Items : Seq(STRING)],
   Origins : OriginsShape, PriceClass : STRING, Enabled : BOOLEAN, HttpVersion : STRING,
   DefaultCacheBehavior : DefaultCacheBehaviorShape, CacheBehaviors : CacheBehaviorsShape]
DeleteParamsShape == [Id : Nat, IfMatch : Nat]
DistributionShape ==
  [status : {"present"}, ETag : Nat, DistributionConfig : DistributionConfigShape,
   created : [inputs : InputsShape, config : DistributionConfigShape]]
TraceShape ==
  [gets : Nat, deletes : Nat, updates : Nat, creates : Nat, identities : Nat,
   deleteError : ErrorShape, request : DeleteParamsShape, first : [ETag : Nat],
   wrote : DistributionShape]

\* ------------------------------------------------------------------- state
VARIABLES
  dist,      \* CloudFront: the distributions, with their ETag and config
  identity,  \* CloudFront: whether the origin access identity exists
  policy,    \* S3: per bucket, the canonical user ids granted read access
  pc,        \* per invocation: the await it is suspended at
  call,      \* per invocation: the operation and its arguments
  resp,      \* per invocation: the last getDistributionConfig response
  ident,     \* per invocation: the result of createOriginAccessIdentity
  grants,    \* per invocation: the state of each grantCloudFrontBucketAccess
  error,     \* per invocation: the error it threw to its caller, if any
  trace,     \* per invocation: the provider calls it issued (history)
  started    \* the number of invocations made so far

vars == <<dist, identity, policy, pc, call, resp, ident, grants, error, trace, started>>

\* ------------------------------------------------------------------ inputs
BucketA == [url |-> "bucket-a", private |-> FALSE, path |-> ""]
PrivateA == [url |-> "bucket-a", private |-> TRUE, path |-> ""]
BucketB == [url |-> "bucket-b", private |-> FALSE, path |-> "/static"]
CustomX == [url |-> "https://api.example.com", private |-> FALSE, path |-> "/api"]

Buckets == {"bucket-a", "bucket-b"}

OriginLists == { <<BucketA>>, <<PrivateA, CustomX, BucketB>> }

Inputs == [origins : OriginLists, comment : {"x"}, enabled : BOOLEAN, defaults : {"ttl0"}]

\* the identity the provider hands out; repeated creates return the same one
TheIdentity == [originAccessIdentityId |-> "oai-1", s3CanonicalUserId |-> "canon-1"]
NoIdentity == [originAccessIdentityId |-> None, s3CanonicalUserId |-> None]

\* index.ts:11-12
servePrivateContentEnabled(inputs) ==
  \E i \in DOMAIN inputs.origins : inputs.origins[i].private = TRUE

\* parseInputOrigins: one provider origin per input origin
ParseOrigin(origin, originAccessIdentityId) ==
  IF origin.url \in Buckets
  THEN [Id |-> origin.url, DomainName |-> origin.url,
        S3OriginConfig |-> [OriginAccessIdentity |->
            IF origin.private THEN originAccessIdentityId ELSE ""]]
  ELSE [Id |-> origin.url, DomainName |-> origin.url,
        CustomOriginConfig |-> [OriginProtocolPolicy |-> "https-only"]]

ParsedOrigins(origins, originAccessIdentityId) ==
  [Quantity |-> Len(origins),
   Items |-> [i \in DOMAIN origins |-> ParseOrigin(origins[i], originAccessIdentityId)]]

HasPath(origin) == origin.path # ""

ParsedCacheBehaviors(origins) ==
  LET routed == SelectSeq(origins, HasPath)
  IN [Quantity |-> Len(routed),
      Items |-> [i \in DOMAIN routed |->
                   [PathPattern |-> routed[i].path, TargetOriginId |-> routed[i].url]]]

parseInputOrigins(origins, options) ==
  IF \E i \in DOMAIN origins : HasPath(origins[i])
  THEN [Origins |-> ParsedOrigins(origins, options.originAccessIdentityId),
        CacheBehaviors |-> ParsedCacheBehaviors(origins)]
  ELSE [Origins |-> ParsedOrigins(origins, options.originAccessIdentityId)]

getDefaultCacheBehavior(originId, defaults) ==
  [TargetOriginId |-> originId, ViewerProtocolPolicy |-> "redirect-to-https",
   Defaults |-> defaults]

\* index.ts:20-22
bucketNames(Origins) ==
  { Origins.Items[i].Id : i \in { j \in DOMAIN Origins.Items :
                                     "S3OriginConfig" \in DOMAIN Origins.Items[j] } }


\* ---------------------------------------------------------------- requests
\* index.ts:51-69
createDistributionRequest(inputs, parsed, now) ==
  LET behavior == getDefaultCacheBehavior(parsed.Origins.Items[1].Id, inputs.defaults)
  IN [DistributionConfig |->
        IF "CacheBehaviors" \in DOMAIN parsed
        THEN [CallerReference |-> now,
              Comment |-> inputs.comment,
              Aliases |-> [Quantity |-> 0, Items |-> <<>>],
              Origins |-> parsed.Origins,
              PriceClass |-> "PriceClass_All",
              Enabled |-> inputs.enabled,
              HttpVersion |-> "http2",
              DefaultCacheBehavior |-> behavior,
              CacheBehaviors |-> parsed.CacheBehaviors]
        ELSE [CallerReference |-> now,
              Comment |-> inputs.comment,
              Aliases |-> [Quantity |-> 0, Items |-> <<>>],
              Origins |-> parsed.Origins,
              PriceClass |-> "PriceClass_All",
              Enabled |-> inputs.enabled,
              HttpVersion |-> "http2",
              DefaultCacheBehavior |-> behavior]]

\* mutant: the update is guarded by the ETag current when it is sent
updateRequestLatestETag(distributionId, response, inputs, parsed) ==
  LET behavior == getDefaultCacheBehavior(parsed.Origins.Items[1].Id, inputs.defaults)
  IN [Id |-> distributionId,
      IfMatch |-> dist[distributionId].ETag,
      DistributionConfig |->
        IF "CacheBehaviors" \in DOMAIN parsed
        THEN [CallerReference |-> response.DistributionConfig.CallerReference,
              Comment |-> inputs.comment,
              Origins |-> parsed.Origins,
              Enabled |-> inputs.enabled,
              DefaultCacheBehavior |-> behavior,
              CacheBehaviors |-> parsed.CacheBehaviors]
        ELSE [CallerReference |-> response.DistributionConfig.CallerReference,
              Comment |-> inputs.comment,
              Origins |-> parsed.Origins,
              Enabled |-> inputs.enabled,
              DefaultCacheBehavior |-> behavior]]

\* mutant: the update takes a new timestamp as CallerReference, as create does
updateRequestFreshReference(distributionId, response, inputs, parsed) ==
  LET behavior == getDefaultCacheBehavior(parsed.Origins.Items[1].Id, inputs.defaults)
  IN [Id |-> distributionId,
      IfMatch |-> response.ETag,
      DistributionConfig |->
        IF "CacheBehaviors" \in DOMAIN parsed
        THEN [CallerReference |-> response.DistributionConfig.CallerReference + 1,
              Comment |-> inputs.comment,
              Origins |-> parsed.Origins,
              Enabled |-> inputs.enabled,
              DefaultCacheBehavior |-> behavior,
              CacheBehaviors |-> parsed.CacheBehaviors]
        ELSE [CallerReference |-> response.DistributionConfig.CallerReference + 1,
              Comment |-> inputs.comment,
              Origins |-> parsed.Origins,
              Enabled |-> inputs.enabled,
              DefaultCacheBehavior |-> behavior]]

\* index.ts:112-126
updateDistributionRequest(distributionId, response, inputs, parsed) ==
  LET behavior == getDefaultCacheBehavior(parsed.Origins.Items[1].Id, inputs.defaults)
  IN [Id |-> distributionId,
      IfMatch |-> response.ETag,
      DistributionConfig |->
        IF "CacheBehaviors" \in DOMAIN parsed
        THEN [CallerReference |-> response.DistributionConfig.CallerReference,
              Comment |-> inputs.comment,
              Origins |-> parsed.Origins,
              Enabled |-> inputs.enabled,
              DefaultCacheBehavior |-> behavior,
              CacheBehaviors |-> parsed.CacheBehaviors]
        ELSE [CallerReference |-> response.DistributionConfig.CallerReference,
              Comment |-> inputs.comment,
              Origins |-> parsed.Origins,
              Enabled |-> inputs.enabled,
              DefaultCacheBehavior |-> behavior]]

\* mutant: the disable echoes the fetched Enabled flag
disableRequestKeepingEnabled(distributionId, response) ==
  [Id |-> distributionId,
   IfMatch |-> response.ETag,
   DistributionConfig |->
     [CallerReference |-> response.DistributionConfig.CallerReference,
      Comment |-> response.DistributionConfig.Comment,
      Origins |-> response.DistributionConfig.Origins,
      Enabled |-> response.DistributionConfig.Enabled,
      DefaultCacheBehavior |-> response.DistributionConfig.DefaultCacheBehavior]]

\* index.ts:146-156
disableDistributionRequest(distributionId, response) ==
  [Id |-> distributionId,
   IfMatch |-> response.ETag,
   DistributionConfig |->
     [CallerReference |-> response.DistributionConfig.CallerReference,
      Comment |-> response.DistributionConfig.Comment,
      Origins |-> response.DistributionConfig.Origins,
      Enabled |-> FALSE,
      DefaultCacheBehavior |-> response.DistributionConfig.DefaultCacheBehavior]]

\* index.ts:171
deleteDistributionParams(distributionId, response) ==
  [Id |-> distributionId, IfMatch |-> response.ETag]

\* index.ts:90 and index.ts:142
configMissing(response) == "DistributionConfig" \notin DOMAIN response

\* index.ts:91 and index.ts:143
MissingConfigError == PlainError(MissingConfigMessage)

\* mutant: the identity is provisioned before the response is checked
afterUpdateFetchIdentityFirst(response, inputs) ==
  IF servePrivateContentEnabled(inputs) THEN "oai"
  ELSE IF configMissing(response) THEN "throw"
  ELSE "send"

\* index.ts:90-102: what updateCloudFrontDistribution does with the response
afterUpdateFetch(response, inputs) ==
  IF configMissing(response) THEN "throw"
  ELSE IF servePrivateContentEnabled(inputs) THEN "oai"
  ELSE "send"

\* mutant: the disable does not check the response
afterDisableFetchUnchecked(response) == "xsend"

\* index.ts:142-158: what disableCloudFrontDistribution does with the response
afterDisableFetch(response) ==
  IF configMissing(response) THEN "throw" ELSE "xsend"

\* mutant: the catch block falls back to disable on any provider error
catchDeleteAnyCode(e) ==
  IF e.code # None THEN "xget" ELSE "throw"

\* index.ts:173-178: the catch block of deleteCloudFrontDistribution
catchDelete(e) ==
  IF e.code = NotDisabledCode THEN "xget" ELSE "throw"

\* mutant: the join resolves with the first grant that resolves
promiseAny(g, names) ==
  IF \E b \in names : g[b] = "ok" THEN "resolved"
  ELSE IF \A b \in names : g[b] = "failed" THEN "rejected"
  ELSE "pending"

\* mutant: the join waits for every grant to settle and never rejects
promiseAllSettled(g, names) ==
  IF \A b \in names : g[b] \in {"ok", "failed"} THEN "resolved" ELSE "pending"

\* index.ts:24-28: Promise.all over the grants of the named buckets rejects on
\* the first rejection and resolves once every grant has resolved
promiseAll(g, names) ==
  IF \E b \in names : g[b] = "failed" THEN "rejected"
  ELSE IF \A b \in names : g[b] = "ok" THEN "resolved"
  ELSE "pending"


NoResponse == [ETag |-> 0]
NoCall == [op |-> "none", Id |-> 0, inputs |-> 0]
NoGrants == [b \in Buckets |-> "none"]
NoDistribution == [status |-> "free", ETag |-> 0]
NoTrace == [gets |-> 0, deletes |-> 0, updates |-> 0, creates |-> 0,
            identities |-> 0, deleteError |-> NoError, request |-> NoResponse,
            first |-> NoResponse, wrote |-> NoDistribution]

Init ==
  /\ dist = [d \in DistIds |-> NoDistribution]
  /\ identity = FALSE
  /\ policy = [b \in Buckets |-> {}]
  /\ pc = [p \in Procs |-> "idle"]
  /\ call = [p \in Procs |-> NoCall]
  /\ resp = [p \in Procs |-> NoResponse]
  /\ ident = [p \in Procs |-> NoIdentity]
  /\ grants = [p \in Procs |-> NoGrants]
  /\ error = [p \in Procs |-> NoError]
  /\ trace = [p \in Procs |-> NoTrace]
  /\ started = 0

Present(d) == dist[d].status = "present"

\* the invocation throws e to its caller
Throw(p, e) ==
  /\ pc' = [pc EXCEPT ![p] = "done"]
  /\ error' = [error EXCEPT ![p] = e]

\* a caller invokes an operation: p is free once its previous invocation has
\* returned or thrown and none of its promises is still pending
Invoke(p, c, first) ==
  /\ pc[p] \in {"idle", "done"}
  /\ \A b \in Buckets : grants[p][b] # "pending"
  /\ started < MaxCalls
  /\ started' = started + 1
  /\ call' = [call EXCEPT ![p] = c]
  /\ pc' = [pc EXCEPT ![p] = first]
  /\ resp' = [resp EXCEPT ![p] = NoResponse]
  /\ ident' = [ident EXCEPT ![p] = NoIdentity]
  /\ grants' = [grants EXCEPT ![p] = NoGrants]
  /\ error' = [error EXCEPT ![p] = NoError]
  /\ trace' = [trace EXCEPT ![p] = NoTrace]
  /\ UNCHANGED <<dist, identity, policy>>

Parsed(p) == parseInputOrigins(call[p].inputs.origins,
                 [originAccessIdentityId |-> ident[p].originAccessIdentityId])


\* --------------------------------------------------------------- provider
\* getDistributionConfig: the answers the provider may give for distribution d
\* (the SDK types DistributionConfig as optional in the response)
GetResponses(d) ==
  { [ETag |-> dist[d].ETag],
    [ETag |-> dist[d].ETag, DistributionConfig |-> dist[d].DistributionConfig] }

\* updateDistribution: the errors the provider answers request req with
UpdateErrors(req) ==
  IF ~Present(req.Id) THEN {ProviderError("NoSuchDistribution")}
  ELSE IF req.IfMatch # dist[req.Id].ETag THEN {ProviderError("PreconditionFailed")}
  ELSE {}

\* deleteDistribution: the errors the provider may answer params with
DeleteErrors(params) ==
  IF ~Present(params.Id) THEN {ProviderError("NoSuchDistribution")}
  ELSE (IF params.IfMatch # dist[params.Id].ETag
        THEN {ProviderError("PreconditionFailed")} ELSE {})
       \cup
       (IF dist[params.Id].DistributionConfig.Enabled
        THEN {ProviderError(NotDisabledCode)} ELSE {})

\* the provider replaces the stored config by the one sent and renews the ETag
Updated(d, req) ==
  [dist[d] EXCEPT !.ETag = @ + 1, !.DistributionConfig = req.DistributionConfig]

Deleted(d) == [status |-> "deleted", ETag |-> 0]

FreeIds == { d \in DistIds : dist[d].status = "free" }
CreatesInFlight == { q \in Procs : call[q].op = "create" /\ pc[q] # "done" }

\* ----------------------------------------------------- createDistribution
\* index.ts:36-49 up to the first await
StartCreate(p, inputs) ==
  /\ Cardinality(FreeIds) > Cardinality(CreatesInFlight)
  /\ Invoke(p, [op |-> "create", Id |-> 0, inputs |-> inputs],
            IF servePrivateContentEnabled(inputs) THEN "oai" ELSE "send")

\* index.ts:40-49 and index.ts:101-110: createOriginAccessIdentity resolves,
\* the origins are parsed and updateBucketsPolicies starts one grant per bucket
CreateIdentity(p) ==
  /\ pc[p] = "oai"
  /\ identity' = TRUE
  /\ ident' = [ident EXCEPT ![p] = TheIdentity]
  /\ trace' = [trace EXCEPT ![p].identities = @ + 1]
  /\ LET names == bucketNames(parseInputOrigins(call[p].inputs.origins,
                     [originAccessIdentityId |-> TheIdentity.originAccessIdentityId]).Origins)
     IN /\ grants' = [grants EXCEPT ![p] =
                        [b \in Buckets |-> IF b \in names THEN "pending" ELSE "none"]]
        /\ pc' = [pc EXCEPT ![p] = IF promiseAll(grants'[p], names) = "resolved"
                                   THEN "send" ELSE "grant"]
  /\ UNCHANGED <<dist, policy, call, resp, error, started>>

\* index.ts:40 and index.ts:101: createOriginAccessIdentity rejects
CreateIdentityFails(p) ==
  /\ pc[p] = "oai"
  /\ Throw(p, ProviderError("AccessDenied"))
  /\ trace' = [trace EXCEPT ![p].identities = @ + 1]
  /\ UNCHANGED <<dist, identity, policy, call, resp, ident, grants, started>>

\* index.ts:47-49 and index.ts:108-110: the grant of bucket b has settled; the
\* invocation, if it still awaits updateBucketsPolicies, resumes or throws
Settle(p, b) ==
  LET join == promiseAll(grants'[p], bucketNames(Parsed(p).Origins))
  IN IF pc[p] = "grant" /\ join = "rejected"
     THEN Throw(p, GrantError(b))
     ELSE /\ pc' = [pc EXCEPT ![p] = IF pc[p] = "grant" /\ join = "resolved"
                                     THEN "send" ELSE @]
          /\ UNCHANGED error

\* index.ts:24-28: one grantCloudFrontBucketAccess resolves
GrantSucceeds(p, b) ==
  /\ grants[p][b] = "pending"
  /\ grants' = [grants EXCEPT ![p][b] = "ok"]
  /\ policy' = [policy EXCEPT ![b] = @ \cup {ident[p].s3CanonicalUserId}]
  /\ Settle(p, b)
  /\ UNCHANGED <<dist, identity, call, resp, ident, trace, started>>

\* index.ts:24-28: one grantCloudFrontBucketAccess rejects; the first rejection
\* rejects Promise.all, the other grants stay in flight
GrantFails(p, b) ==
  /\ grants[p][b] = "pending"
  /\ grants' = [grants EXCEPT ![p][b] = "failed"]
  /\ Settle(p, b)
  /\ UNCHANGED <<dist, identity, policy, call, resp, ident, trace, started>>

\* index.ts:51-78: cf.createDistribution is answered
SendCreate(p) ==
  /\ pc[p] = "send"
  /\ call[p].op = "create"
  /\ \E d \in FreeIds, now \in Timestamps :
       LET req == createDistributionRequest(call[p].inputs, Parsed(p), now)
           new == [status |-> "present", ETag |-> 1,
                   DistributionConfig |-> req.DistributionConfig,
                   created |-> [inputs |-> call[p].inputs,
                                config |-> req.DistributionConfig]]
       IN /\ d = CHOOSE x \in FreeIds : \A y \in FreeIds : x <= y
          /\ dist' = [dist EXCEPT ![d] = new]
          /\ call' = [call EXCEPT ![p].Id = d]
          /\ trace' = [trace EXCEPT ![p].creates = @ + 1, ![p].request = req,
                                    ![p].wrote = new]
  /\ pc' = [pc EXCEPT ![p] = "done"]
  /\ UNCHANGED <<identity, policy, resp, ident, grants, error, started>>


\* ----------------------------------------------------- updateDistribution
\* index.ts:86: cf.getDistributionConfig is issued
StartUpdate(p, distributionId, inputs) ==
  Invoke(p, [op |-> "update", Id |-> distributionId, inputs |-> inputs], "get")

\* index.ts:86-102: the fetch is answered and checked
UpdateFetch(p) ==
  /\ pc[p] = "get"
  /\ trace' = [trace EXCEPT ![p].gets = @ + 1]
  /\ IF ~Present(call[p].Id)
     THEN /\ Throw(p, ProviderError("NoSuchDistribution"))
          /\ UNCHANGED resp
     ELSE \E r \in GetResponses(call[p].Id) :
            /\ resp' = [resp EXCEPT ![p] = r]
            /\ LET next == afterUpdateFetch(r, call[p].inputs)
               IN IF next = "throw"
                  THEN Throw(p, MissingConfigError)
                  ELSE /\ pc' = [pc EXCEPT ![p] = next]
                       /\ UNCHANGED error
  /\ UNCHANGED <<dist, identity, policy, call, ident, grants, started>>

\* an updateDistribution request is answered by the provider
AnswerUpdate(p, req) ==
  /\ trace' = [trace EXCEPT ![p].updates = @ + 1, ![p].request = req,
                            ![p].wrote = IF UpdateErrors(req) = {}
                                         THEN Updated(req.Id, req) ELSE @]
  /\ IF UpdateErrors(req) = {}
     THEN /\ dist' = [dist EXCEPT ![req.Id] = Updated(req.Id, req)]
          /\ pc' = [pc EXCEPT ![p] = "done"]
          /\ UNCHANGED error
     ELSE /\ \E e \in UpdateErrors(req) : Throw(p, e)
          /\ UNCHANGED dist

\* index.ts:112-134: cf.updateDistribution is answered
SendUpdate(p) ==
  /\ pc[p] = "send"
  /\ call[p].op = "update"
  /\ AnswerUpdate(p, updateDistributionRequest(call[p].Id, resp[p], call[p].inputs, Parsed(p)))
  /\ UNCHANGED <<identity, policy, call, resp, ident, grants, started>>

\* ----------------------------------------------------- deleteDistribution
\* index.ts:169: cf.getDistributionConfig is issued
StartDelete(p, distributionId) ==
  Invoke(p, [op |-> "delete", Id |-> distributionId, inputs |-> 0], "dget")

\* index.ts:173-178: e was thrown inside the try block
Catch(p, e) ==
  IF catchDelete(e) = "throw"
  THEN Throw(p, e)
  ELSE /\ pc' = [pc EXCEPT ![p] = catchDelete(e)]
       /\ UNCHANGED error

\* index.ts:169-171: the fetch is answered
DeleteFetch(p) ==
  /\ pc[p] = "dget"
  /\ IF ~Present(call[p].Id)
     THEN /\ Catch(p, ProviderError("NoSuchDistribution"))
          /\ trace' = [trace EXCEPT ![p].gets = @ + 1,
                                    ![p].deleteError = ProviderError("NoSuchDistribution")]
          /\ UNCHANGED resp
     ELSE \E r \in GetResponses(call[p].Id) :
            /\ resp' = [resp EXCEPT ![p] = r]
            /\ trace' = [trace EXCEPT ![p].gets = @ + 1, ![p].first = r]
            /\ pc' = [pc EXCEPT ![p] = "ddel"]
            /\ UNCHANGED error
  /\ UNCHANGED <<dist, identity, policy, call, ident, grants, started>>

\* index.ts:172-179: cf.deleteDistribution is answered
DeleteCall(p) ==
  /\ pc[p] = "ddel"
  /\ LET params == deleteDistributionParams(call[p].Id, resp[p])
     IN IF DeleteErrors(params) = {}
        THEN /\ dist' = [dist EXCEPT ![params.Id] = Deleted(params.Id)]
             /\ pc' = [pc EXCEPT ![p] = "done"]
             /\ trace' = [trace EXCEPT ![p].deletes = @ + 1, ![p].request = params,
                                       ![p].wrote = Deleted(params.Id)]
             /\ UNCHANGED error
        ELSE \E e \in DeleteErrors(params) :
               /\ Catch(p, e)
               /\ trace' = [trace EXCEPT ![p].deletes = @ + 1, ![p].request = params,
                                         ![p].deleteError = e]
               /\ UNCHANGED dist
  /\ UNCHANGED <<identity, policy, call, resp, ident, grants, started>>

\* index.ts:138-144: the fetch of disableCloudFrontDistribution is answered
DisableFetch(p) ==
  /\ pc[p] = "xget"
  /\ trace' = [trace EXCEPT ![p].gets = @ + 1]
  /\ IF ~Present(call[p].Id)
     THEN /\ Throw(p, ProviderError("NoSuchDistribution"))
          /\ UNCHANGED resp
     ELSE \E r \in GetResponses(call[p].Id) :
            /\ resp' = [resp EXCEPT ![p] = r]
            /\ IF afterDisableFetch(r) = "throw"
               THEN Throw(p, MissingConfigError)
               ELSE /\ pc' = [pc EXCEPT ![p] = afterDisableFetch(r)]
                    /\ UNCHANGED error
  /\ UNCHANGED <<dist, identity, policy, call, ident, grants, started>>

\* index.ts:146-164: the cf.updateDistribution of the disable is answered
DisableSend(p) ==
  /\ pc[p] = "xsend"
  /\ AnswerUpdate(p, disableDistributionRequest(call[p].Id, resp[p]))
  /\ UNCHANGED <<identity, policy, call, resp, ident, grants, started>>

\* ------------------------------------------------------------------- spec
Next ==
  \/ \E p \in Procs, inputs \in Inputs : StartCreate(p, inputs)
  \/ \E p \in Procs : CreateIdentity(p)
  \/ \E p \in Procs : CreateIdentityFails(p)
  \/ \E p \in Procs, b \in Buckets : GrantSucceeds(p, b)
  \/ \E p \in Procs, b \in Buckets : GrantFails(p, b)
  \/ \E p \in Procs : SendCreate(p)
  \/ \E p \in Procs, d \in DistIds, inputs \in Inputs : StartUpdate(p, d, inputs)
  \/ \E p \in Procs : UpdateFetch(p)
  \/ \E p \in Procs : SendUpdate(p)
  \/ \E p \in Procs, d \in DistIds : StartDelete(p, d)
  \/ \E p \in Procs : DeleteFetch(p)
  \/ \E p \in Procs : DeleteCall(p)
  \/ \E p \in Procs : DisableFetch(p)
  \/ \E p \in Procs : DisableSend(p)

Spec == Init /\ [][Next]_vars


\* ----------------------------------------------------------------- claims
IsCreate(p) == call[p].op = "create"
IsUpdate(p) == call[p].op = "update"
IsDelete(p) == call[p].op = "delete"
Done(p) == pc[p] = "done"
Returned(p) == Done(p) /\ error[p] = NoError
Fetched(p) == resp[p] # NoResponse
\* the create or update call of the invocation has been issued
Issued(p) == pc[p] = "send" \/ trace[p].creates + trace[p].updates > 0
\* the delete call was rejected as "not disabled" and the invocation fell back
Fallback(p) == IsDelete(p) /\ trace[p].deleteError.code = NotDisabledCode
\* the ETag the invocation fetched is the distribution's current one
Fresh(p) == Present(call[p].Id) /\ resp[p].ETag = dist[call[p].Id].ETag
Enabled(d) == Present(d) /\ dist[d].DistributionConfig.Enabled

\* C1: a delete of an existing, enabled distribution is rejected as "not
\* disabled" and leaves it in place; the invocation then sends exactly one
\* update, with Enabled = false, and no second delete, returns without error,
\* and at its return the distribution exists and is disabled.
C1Step(p) ==
  /\ (pc[p] = "ddel" /\ Fresh(p) /\ Enabled(call[p].Id))
       => /\ pc'[p] = "xget"
          /\ trace'[p].deleteError.code = NotDisabledCode
          /\ dist' = dist
  /\ (Fallback(p) /\ pc[p] = "xsend" /\ Fresh(p))
       => /\ pc'[p] = "done"
          /\ error'[p] = NoError
  /\ (Fallback(p) /\ pc[p] # "done" /\ pc'[p] = "done" /\ error'[p] = NoError)
       => /\ trace'[p].deletes = 1
          /\ trace'[p].updates = 1
          /\ trace'[p].request.DistributionConfig.Enabled = FALSE
          /\ dist'[call[p].Id].status = "present"
          /\ dist'[call[p].Id].DistributionConfig.Enabled = FALSE

DeleteDisablesEnabledDistribution ==
  [][\A p \in Procs : (pc'[p] # pc[p] /\ IsDelete(p)) => C1Step(p)]_vars

DeleteDisabledWitness ==
  \E p \in Procs : Fallback(p) /\ Returned(p) /\ trace[p].updates = 1
                   /\ Present(call[p].Id) /\ ~Enabled(call[p].Id)

\* C2: the update sent by the disable fallback carries the fetched config with
\* every field unchanged except Enabled, which is false.
DisableKeepsEveryOtherField ==
  \A p \in Procs :
    (IsDelete(p) /\ trace[p].updates > 0)
      => trace[p].request.DistributionConfig
           = [resp[p].DistributionConfig EXCEPT !.Enabled = FALSE]

\* C3: the stored CallerReference of a distribution is the one createDistribution
\* set, and every update sent carries the CallerReference that was fetched.
CallerReferenceImmutable ==
  /\ \A d \in DistIds :
       Present(d) => dist[d].DistributionConfig.CallerReference
                       = dist[d].created.config.CallerReference
  /\ \A p \in Procs :
       trace[p].updates > 0
         => trace[p].request.DistributionConfig.CallerReference
              = resp[p].DistributionConfig.CallerReference

CallerReferenceWitness ==
  \E p, q \in Procs :
    /\ IsUpdate(p) /\ Returned(p)
    /\ Fallback(q) /\ Returned(q) /\ call[q].Id = call[p].Id

\* C4: an update of a distribution created with inputs I (enabled = true), with
\* inputs equal to I except enabled = false, leaves a config that differs from
\* the created one in the Enabled field only.
CreatedFrom(p) == trace[p].wrote.created
UpdateOfEnabledChangesOnlyEnabled ==
  \A p \in Procs :
    (/\ IsUpdate(p) /\ Returned(p)
     /\ resp[p].DistributionConfig = CreatedFrom(p).config
     /\ CreatedFrom(p).inputs.enabled
     /\ call[p].inputs = [CreatedFrom(p).inputs EXCEPT !.enabled = FALSE])
      => trace[p].wrote.DistributionConfig
           = [CreatedFrom(p).config EXCEPT !.Enabled = FALSE]


\* C5: with a private origin in the inputs, no grant is issued before the
\* access identity is returned, and the create or update call is issued only
\* once every bucket-backed parsed origin has its grant completed for the
\* returned canonical user id.
IdentityThenGrantsThenCall ==
  \A p \in Procs :
    ((IsCreate(p) \/ IsUpdate(p)) /\ servePrivateContentEnabled(call[p].inputs))
      => /\ (\E b \in Buckets : grants[p][b] # "none")
              => (ident[p] = TheIdentity /\ trace[p].identities = 1 /\ identity)
         /\ Issued(p)
              => \A b \in bucketNames(Parsed(p).Origins) :
                   /\ grants[p][b] = "ok"
                   /\ ident[p].s3CanonicalUserId \in policy[b]

IdentityThenGrantsWitness ==
  \E p, q \in Procs :
    /\ IsCreate(p) /\ servePrivateContentEnabled(call[p].inputs)
    /\ Returned(p) /\ trace[p].creates = 1
    /\ IsUpdate(q) /\ servePrivateContentEnabled(call[q].inputs)
    /\ Returned(q) /\ trace[q].updates = 1
    /\ Cardinality(bucketNames(Parsed(q).Origins)) > 1

\* C6: every update and delete is sent with the ETag its own operation fetched;
\* a distribution is only ever changed by a write whose fetched ETag and config
\* are the current ones; a write the provider rejects as stale is not retried
\* and its error is thrown to the caller.
C6Step(p) ==
  /\ (pc[p] \in {"send", "xsend", "ddel"} /\ pc'[p] # pc[p]
      /\ trace'[p].updates + trace'[p].deletes > 0)
       => trace'[p].request.IfMatch = resp[p].ETag
  /\ (pc[p] \in {"send", "xsend"} /\ ~IsCreate(p) /\ Present(call[p].Id) /\ ~Fresh(p))
       => /\ pc'[p] = "done"
          /\ error'[p] = ProviderError("PreconditionFailed")
          /\ dist' = dist
  /\ (pc[p] = "ddel" /\ Present(call[p].Id) /\ ~Fresh(p))
       => /\ dist' = dist
          /\ trace'[p].deleteError.code = "PreconditionFailed"
               => (pc'[p] = "done" /\ error'[p] = ProviderError("PreconditionFailed"))
  /\ (Done(p) /\ error[p].code = "PreconditionFailed") => UNCHANGED <<trace[p], dist>>

UpdateWithoutConfigFails ==
  \A p \in Procs :
    (IsUpdate(p) /\ Fetched(p) /\ configMissing(resp[p]))
      => /\ Done(p)
         /\ error[p] = PlainError("Could not get a distribution config")
         /\ trace[p].identities = 0 /\ ident[p] = NoIdentity
         /\ grants[p] = NoGrants
         /\ trace[p].updates = 0 /\ trace[p].wrote = NoDistribution

UpdateWithoutConfigWitness ==
  \E p \in Procs :
    /\ IsUpdate(p) /\ Fetched(p) /\ configMissing(resp[p]) /\ Done(p)
    /\ servePrivateContentEnabled(call[p].inputs)

\* C8 (as claimed): a delete whose fetched response has no DistributionConfig
\* throws the fixed message and issues no delete call.
DeleteWithoutConfigFails ==
  \A p \in Procs :
    (IsDelete(p) /\ trace[p].first # NoResponse /\ configMissing(trace[p].first))
      => /\ pc[p] # "ddel" /\ trace[p].deletes = 0
         /\ Done(p) => error[p] = PlainError("Could not get a distribution config")

\* C8 (amended): a delete issues its delete call with the fetched ETag whether
\* or not the response has a DistributionConfig; it throws the fixed message
\* only from the disable fallback, when the fetch made after a "not disabled"
\* rejection has no DistributionConfig, and then no update is sent.
DeleteChecksConfigOnlyInFallback ==
  \A p \in Procs :
    IsDelete(p)
      => /\ trace[p].first # NoResponse
              => (pc[p] = "ddel" \/ (trace[p].deletes = 1
                                      /\ trace[p].request.Id = call[p].Id))
         /\ error[p].message = "Could not get a distribution config"
              => (Fallback(p) /\ trace[p].deletes = 1 /\ trace[p].gets = 2
                  /\ configMissing(resp[p]))
         /\ (Fallback(p) /\ trace[p].gets = 2 /\ Fetched(p) /\ configMissing(resp[p]))
              => /\ Done(p)
                 /\ error[p] = PlainError("Could not get a distribution config")
                 /\ trace[p].updates = 0

DeleteWithoutConfigWitness ==
  \E p \in Procs :
    /\ IsDelete(p) /\ configMissing(trace[p].first) /\ trace[p].deletes = 1
    /\ Fallback(p) /\ configMissing(resp[p])
    /\ error[p].message = "Could not get a distribution config"

\* C9: once a grant has failed the invocation throws the error of a failed
\* grant and never issues the create or update call, while every grant that
\* completed stays in the bucket's policy.
GrantsAllOrNothing ==
  \A p \in Procs :
    /\ (\E b \in Buckets : grants[p][b] = "failed")
         => /\ Done(p)
            /\ ~Issued(p)
            /\ \E b \in Buckets : grants[p][b] = "failed" /\ error[p] = GrantError(b)
    /\ \A b \in Buckets :
         grants[p][b] = "ok" => ident[p].s3CanonicalUserId \in policy[b]

GrantsPartialWitness ==
  \E p \in Procs : \E a, b \in Buckets :
    /\ grants[p][a] = "failed" /\ error[p] = GrantError(a)
    /\ grants[p][b] = "ok" /\ TheIdentity.s3CanonicalUserId \in policy[b]

\* C10: a delete throws any error other than "not disabled", from its fetch or
\* its delete call, unchanged and without sending an update or changing the
\* distribution; a fallback that does not complete its update throws as well.
DeleteErrorsPropagate ==
  \A p \in Procs :
    IsDelete(p)
      => /\ (trace[p].deleteError # NoError /\ ~Fallback(p))
              => /\ Done(p) /\ error[p] = trace[p].deleteError
                 /\ trace[p].updates = 0 /\ trace[p].gets = 1
                 /\ trace[p].wrote = NoDistribution
         /\ (Fallback(p) /\ Done(p) /\ trace[p].wrote = NoDistribution)
              => error[p] # NoError
         /\ (Fallback(p) /\ Done(p) /\ trace[p].updates = 1 /\ trace[p].wrote = NoDistribution)
              => error[p].code \in {"PreconditionFailed", "NoSuchDistribution"}

DeleteErrorsWitness ==
  \E p \in Procs :
    /\ IsDelete(p) /\ Done(p) /\ trace[p].deletes = 1
    /\ trace[p].deleteError.code = "PreconditionFailed"
    /\ error[p].code = "PreconditionFailed"

====
